---- MODULE Spec2Model ----
\* CSS selector builder of src/src/05-objects-tasks.js (class CssBuilder and the
\* cssSelectorBuilder facade), modelled as a heap of builder objects on which
\* the facade and the builder methods act.
EXTENDS Integers, Sequences, FiniteSets, TLC

\* ------------------------------------------------------------------ bounds
\* Number of calls (facade or method) a program working with several builders makes.
MaxOps == 3
\* Number of calls a program makes while it works with one builder only.
MaxChain == 4
\* Largest absolute value of a rectangle's width and height.
MaxAbs == 12

\* Texts are sequences of one-character strings.
Values == { <<"a">>, <<"b">> }
Tokens == { <<"+">>, <<" ">> }

NoError == "none"

\* ------------------------------------------------------- JavaScript values
\* A JavaScript value held in an object property or in an array: a string
\* (a text) or an array of strings.
JsStr(s) == <<"str", s>>
JsArr(a) == <<"arr", a>>
IsArr(v) == v[1] = "arr"

RECURSIVE Flat(_)
\* Array.prototype.flat(): the elements of the nested arrays are spliced in,
\* every other element is kept.
Flat(vs) ==
  IF vs = <<>> THEN <<>>
  ELSE (IF IsArr(Head(vs)) THEN Head(vs)[2] ELSE <<Head(vs)[2]>>) \o Flat(Tail(vs))

RECURSIVE Join(_)
\* Array.prototype.join(''): the texts one after another, nothing in between.
Join(ss) == IF ss = <<>> THEN <<>> ELSE Head(ss) \o Join(Tail(ss))

\* Array.prototype.indexOf, 0-based, -1 when absent.
IndexOf(seq, x) ==
  IF \E i \in 1..Len(seq) : seq[i] = x
  THEN (CHOOSE i \in 1..Len(seq) : seq[i] = x /\ \A j \in 1..(i-1) : seq[j] # x) - 1
  ELSE -1

Includes(seq, x) == \E i \in 1..Len(seq) : seq[i] = x

RECURSIVE Filter(_, _)
\* names.filter(selector => keys.includes(selector))
Filter(seq, keep) ==
  IF seq = <<>> THEN <<>>
  ELSE (IF Includes(keep, Head(seq)) THEN <<Head(seq)>> ELSE <<>>) \o Filter(Tail(seq), keep)

\* An object with string keys is the sequence of its properties in insertion
\* order, each [key, value].
ObjKeys(obj) == [i \in 1..Len(obj) |-> obj[i].key]
ObjValues(obj) == [i \in 1..Len(obj) |-> obj[i].value]
HasOwnProperty(obj, k) == \E i \in 1..Len(obj) : obj[i].key = k
Get(obj, k) == obj[CHOOSE i \in 1..Len(obj) : obj[i].key = k].value
\* obj[k] = v, and { ...obj, k: v }: an existing key keeps its place.
SetKey(obj, k, v) ==
  IF HasOwnProperty(obj, k)
  THEN [i \in 1..Len(obj) |-> IF obj[i].key = k THEN [key |-> k, value |-> v] ELSE obj[i]]
  ELSE Append(obj, [key |-> k, value |-> v])

\* ------------------------------------------- Rectangle, getJSON, fromJSON
\* Variant: the two assignments of the constructor crossed.
RectangleSwapped(width, height) == [width |-> height, height |-> width]

\* new Rectangle(width, height)
Rectangle(width, height) == [width |-> width, height |-> height]

\* Rectangle.prototype.getArea
getArea(this) == this.width * this.height

widthKey == <<"w", "i", "d", "t", "h">>
heightKey == <<"h", "e", "i", "g", "h", "t">>
\* The object literal { width: w, height: h }.
RectLiteral(w, h) == <<[key |-> widthKey, value |-> w], [key |-> heightKey, value |-> h]>>

DigitChars == <<"0", "1", "2", "3", "4", "5", "6", "7", "8", "9">>
RECURSIVE DigitsText(_)
DigitsText(n) ==
  IF n < 10 THEN <<DigitChars[n + 1]>>
  ELSE DigitsText(n \div 10) \o <<DigitChars[(n % 10) + 1]>>
\* JSON text of an integer.
NumText(n) == IF n < 0 THEN <<"-">> \o DigitsText(0 - n) ELSE DigitsText(n)

RECURSIVE MembersText(_)
\* The members of an object, "key":value, with commas in between.
MembersText(obj) ==
  IF obj = <<>> THEN <<>>
  ELSE <<"\"">> \o Head(obj).key \o <<"\"", ":">> \o NumText(Head(obj).value)
         \o (IF Len(obj) > 1 THEN <<",">> ELSE <<>>) \o MembersText(Tail(obj))

\* JSON.stringify of an object whose values are integers.
JSONStringify(obj) == <<"{">> \o MembersText(obj) \o <<"}">>

\* getJSON(obj)
getJSON(obj) == JSONStringify(obj)

\* First position from i on where the text holds one of the characters cs.
Find(t, i, cs) == CHOOSE j \in i..Len(t) : t[j] \in cs /\ \A m \in i..(j - 1) : t[m] \notin cs

DigitValue(c) == (CHOOSE d \in 1..10 : DigitChars[d] = c) - 1
RECURSIVE DigitsValue(_)
DigitsValue(t) ==
  IF Len(t) = 1 THEN DigitValue(t[1])
  ELSE DigitsValue(SubSeq(t, 1, Len(t) - 1)) * 10 + DigitValue(t[Len(t)])
\* The integer a JSON number text stands for.
NumValue(t) == IF t[1] = "-" THEN 0 - DigitsValue(Tail(t)) ELSE DigitsValue(t)

RECURSIVE ParseMembers(_, _)
\* The members read from position i of the text on, in the order of the text.
ParseMembers(t, i) ==
  IF t[i] = "}" THEN <<>>
  ELSE IF t[i] = "," THEN ParseMembers(t, i + 1)
  ELSE LET keyEnd == Find(t, i + 1, {"\""})
           numEnd == Find(t, keyEnd + 2, {",", "}"})
       IN <<[key |-> SubSeq(t, i + 1, keyEnd - 1),
             value |-> NumValue(SubSeq(t, keyEnd + 2, numEnd - 1))]>>
            \o ParseMembers(t, numEnd)

\* JSON.parse of the text of an object whose values are integers.
JSONParse(t) == ParseMembers(t, 2)

\* fromJSON(Rectangle.prototype, json): new Rectangle(...Object.values(obj))
fromJSON(json) ==
  LET obj == JSONParse(json)
      values == ObjValues(obj)
  IN Rectangle(values[1], values[2])

\* -------------------------------------------------------------- CssBuilder
names == <<"element", "id", "class", "attr", "pseudoClass", "pseudoElement">>
repeatError == "Element, id and pseudo-element should not occur more then one time inside the selector"
positionError == "Selector parts should be arranged in the following order: element, id, class, attribute, pseudo-class, pseudo-element"

Kinds == { names[i] : i \in 1..Len(names) }

\* new CssBuilder()
NewCssBuilder == [selectors |-> <<>>, complex |-> <<>>]

\* Variant: the own-property test looks at the builder, not at its selectors.
checkValueOnBuilder(h, this, string) == string \in {"names", "selectors", "complex"}

\* checkValue(string) throws
checkValueThrows(h, this, string) == HasOwnProperty(h[this].selectors, string)

\* Variant: each key is looked up in names, not in the kinds present.
checkPositionAgainstNames(h, this) ==
  LET keys == ObjKeys(h[this].selectors)
  IN \E index \in 0..(Len(keys) - 1) : index > IndexOf(names, keys[index + 1])

\* Variant: only the key inserted last is compared with its position.
checkPositionLastOnly(h, this) ==
  LET keys == ObjKeys(h[this].selectors)
      currentPosition == Filter(names, keys)
  IN Len(keys) > 0 /\ (Len(keys) - 1) > IndexOf(currentPosition, keys[Len(keys)])

\* checkPosition() throws
checkPositionThrows(h, this) ==
  LET keys == ObjKeys(h[this].selectors)
      currentPosition == Filter(names, keys)
  IN \E index \in 0..(Len(keys) - 1) : index > IndexOf(currentPosition, keys[index + 1])

\* isSelector(string)
isSelector(h, this, string) ==
  IF ~HasOwnProperty(h[this].selectors, string)
  THEN [h EXCEPT ![this].selectors = SetKey(@, string, JsArr(<<>>))]
  ELSE h

\* Variant: unshift in place of push.
PushFront(h, this, string, text) ==
  [h EXCEPT ![this].selectors = SetKey(@, string, JsArr(<<text>> \o Get(@, string)[2]))]

\* this.selectors[string].push(text)
Push(h, this, string, text) ==
  [h EXCEPT ![this].selectors = SetKey(@, string, JsArr(Append(Get(@, string)[2], text)))]

\* The tail of every fragment method: checkPosition(); return this.
Checked(h, this) ==
  IF checkPositionThrows(h, this)
  THEN [heap |-> h, err |-> positionError]
  ELSE [heap |-> h, err |-> NoError]

\* Variant: the spread assignment made before checkValue.
SingleStoreFirst(h, this, string, text) ==
  IF checkValueThrows(h, this, string)
  THEN [heap |-> [h EXCEPT ![this].selectors = SetKey(@, string, JsStr(text))], err |-> repeatError]
  ELSE Checked([h EXCEPT ![this].selectors = SetKey(@, string, JsStr(text))], this)

\* The singular kinds: checkValue, then the spread assignment.
Single(h, this, string, text) ==
  IF checkValueThrows(h, this, string)
  THEN [heap |-> h, err |-> repeatError]
  ELSE Checked([h EXCEPT ![this].selectors = SetKey(@, string, JsStr(text))], this)

\* Variant: element kept in an array like the repeatable kinds, without checkValue.
elementRepeatable(h, this, value) ==
  LET h1 == IF ~HasOwnProperty(h[this].selectors, "element")
            THEN [h EXCEPT ![this].selectors = SetKey(@, "element", JsArr(<<>>))]
            ELSE h
      h2 == [h1 EXCEPT ![this].selectors =
               SetKey(@, "element", JsArr(Append(Get(@, "element")[2], value)))]
  IN IF checkPositionThrows(h2, this)
     THEN [heap |-> h2, err |-> positionError]
     ELSE [heap |-> h2, err |-> NoError]

element(h, this, value) == Single(h, this, "element", value)
id(h, this, value) == Single(h, this, "id", <<"#">> \o value)
class(h, this, value) == Checked(Push(isSelector(h, this, "class"), this, "class", <<".">> \o value), this)
attr(h, this, value) == Checked(Push(isSelector(h, this, "attr"), this, "attr", <<"[">> \o value \o <<"]">>), this)
pseudoClass(h, this, value) ==
  Checked(Push(isSelector(h, this, "pseudoClass"), this, "pseudoClass", <<":">> \o value), this)
\* Variant: one colon in place of two.
pseudoElementOneColon(h, this, value) == Single(h, this, "pseudoElement", <<":">> \o value)

pseudoElement(h, this, value) == Single(h, this, "pseudoElement", <<":", ":">> \o value)

\* stringify()
stringify(h, this) ==
  IF Len(h[this].complex) > 0
  THEN Join(Flat(h[this].complex))
  ELSE Join(Flat(ObjValues(h[this].selectors)))

\* Variant: the builder is reset once it has been rendered.
stringifyResets(h, this) == [h EXCEPT ![this] = NewCssBuilder]

\* The heap after stringify(): it assigns nothing, and Object.values, flat and
\* join build new values.
stringifyEffect(h, this) == h

\* Variant: the template without its two spaces.
combineNoSpaces(h, this, item1, combination, item2) ==
  [h EXCEPT ![this].complex =
     Append(@, JsStr(stringify(h, item1) \o combination \o stringify(h, item2)))]

\* Variant: the operands in the wrong order.
combineSwapped(h, this, item1, combination, item2) ==
  [h EXCEPT ![this].complex =
     Append(@, JsStr(stringify(h, item2) \o <<" ">> \o combination \o <<" ">> \o stringify(h, item1)))]

\* Variant: the text is pushed onto the left operand as well as onto the receiver.
combineIntoItem1(h, this, item1, combination, item2) ==
  LET text == JsStr(stringify(h, item1) \o <<" ">> \o combination \o <<" ">> \o stringify(h, item2))
  IN [i \in DOMAIN h |->
       IF i = this \/ i = item1 THEN [h[i] EXCEPT !.complex = Append(@, text)] ELSE h[i]]

\* Variant: the left operand rendered on both sides.
combineItem1Twice(h, this, item1, combination, item2) ==
  [h EXCEPT ![this].complex =
     Append(@, JsStr(stringify(h, item1) \o <<" ">> \o combination \o <<" ">> \o stringify(h, item1)))]

\* combine(item1, combination, item2)
combine(h, this, item1, combination, item2) ==
  [h EXCEPT ![this].complex =
     Append(@, JsStr(stringify(h, item1) \o <<" ">> \o combination \o <<" ">> \o stringify(h, item2)))]

\* ------------------------------------------------------------------- state
VARIABLES
  heap,   \* the CssBuilder objects allocated so far, in allocation order
  last,   \* the call made last and how it ended
  prev,   \* the heap as it was when the last call was made
  log,    \* per builder, the fragment-adding calls made on it, with their outcome
  tree,   \* per builder, the selector expression a combine call made of it, <<>> if none
  made,   \* per builder, the combine calls made on it: operands, token, text at the call
  rt,     \* the round trip of a rectangle: literal, JSON text, Rectangle, area
  ops     \* number of calls made

vars == <<heap, last, prev, log, tree, made, rt, ops>>
cssVars == <<heap, last, prev, log, tree, made, ops>>

Allocated(h) == DOMAIN h
\* The object `new CssBuilder()` yields next.
Fresh(h) == Len(h) + 1
\* Calls the program may still make: a chain on its only builder may be longer.
Budget(h) == IF Len(h) <= 1 THEN MaxChain ELSE MaxOps
\* The values the program passes: both while it works with one builder, the
\* first alone once it works with several.
Inputs(h) == IF Len(h) <= 1 THEN Values ELSE { <<"a">> }

NoCall == [op |-> "none", facade |-> FALSE, this |-> 0, value |-> <<>>,
           item1 |-> 0, item2 |-> 0, err |-> NoError, text |-> <<>>]

Init ==
  /\ heap = <<>>
  /\ last = NoCall
  /\ prev = <<>>
  /\ log = <<>>
  /\ tree = <<>>
  /\ made = <<>>
  /\ rt = [pc |-> "start", obj |-> <<>>, json |-> <<>>, rect |-> Rectangle(0, 0), area |-> 0]
  /\ ops = 0

Method(k, h, this, value) ==
  CASE k = "element" -> element(h, this, value)
    [] k = "id" -> id(h, this, value)
    [] k = "class" -> class(h, this, value)
    [] k = "attr" -> attr(h, this, value)
    [] k = "pseudoClass" -> pseudoClass(h, this, value)
    [] k = "pseudoElement" -> pseudoElement(h, this, value)

\* builder.<k>(value) on an existing builder; the caller catches what it throws.
Invoke(k, this, value, viaFacade, h, lg, tr, md) ==
  LET r == Method(k, h, this, value)
  IN /\ heap' = r.heap
     /\ prev' = heap
     /\ tree' = tr
     /\ made' = md
     /\ last' = [op |-> k, facade |-> viaFacade, this |-> this, value |-> value,
                 item1 |-> 0, item2 |-> 0, err |-> r.err, text |-> <<>>]
     /\ log' = [lg EXCEPT ![this] = Append(@, [kind |-> k, value |-> value, err |-> r.err])]
     /\ ops' = ops + 1
     /\ UNCHANGED rt

Call(k) ==
  /\ ops < Budget(heap)
  /\ \E this \in Allocated(heap), value \in Inputs(heap) : Invoke(k, this, value, FALSE, heap, log, tree, made)

\* cssSelectorBuilder.<k>(value): new CssBuilder().<k>(value)
FacadeCall(k) ==
  /\ ops < MaxOps
  /\ \E value \in Inputs(Append(heap, NewCssBuilder)) :
       Invoke(k, Fresh(heap), value, TRUE, Append(heap, NewCssBuilder), Append(log, <<>>),
              Append(tree, <<>>), Append(made, <<>>))

Element == Call("element")
Id == Call("id")
Class == Call("class")
Attr == Call("attr")
PseudoClass == Call("pseudoClass")
PseudoElement == Call("pseudoElement")

FacadeElement == FacadeCall("element")
FacadeId == FacadeCall("id")
FacadeClass == FacadeCall("class")
FacadeAttr == FacadeCall("attr")
FacadePseudoClass == FacadeCall("pseudoClass")
FacadePseudoElement == FacadeCall("pseudoElement")

\* The selector expression a builder stands for as an operand of combine: the
\* expression a combine call made of it, else a leaf holding its rendering.
TreeOf(h, tr, x) == IF tr[x] = <<>> THEN <<stringify(h, x)>> ELSE tr[x]

InvokeCombine(this, item1, combination, item2, viaFacade, h, lg, tr, md) ==
  /\ heap' = combine(h, this, item1, combination, item2)
  /\ prev' = heap
  /\ tree' = [tr EXCEPT ![this] =
                IF @ = <<>>
                THEN <<TreeOf(h, tr, item1), combination, TreeOf(h, tr, item2)>>
                ELSE <<stringify(combine(h, this, item1, combination, item2), this)>>]
  /\ last' = [op |-> "combine", facade |-> viaFacade, this |-> this, value |-> combination,
              item1 |-> item1, item2 |-> item2, err |-> NoError, text |-> <<>>]
  /\ made' = [md EXCEPT ![this] =
                Append(@, [item1 |-> item1, token |-> combination, item2 |-> item2,
                           facade |-> viaFacade,
                           text |-> stringify(h, item1) \o <<" ">> \o combination
                                      \o <<" ">> \o stringify(h, item2)])]
  /\ log' = lg
  /\ ops' = ops + 1
  /\ UNCHANGED rt

\* builder.combine(item1, combination, item2)
Combine ==
  /\ ops < Budget(heap)
  /\ \E this \in Allocated(heap), item1 \in Allocated(heap), item2 \in Allocated(heap),
     combination \in Tokens :
    InvokeCombine(this, item1, combination, item2, FALSE, heap, log, tree, made)

\* cssSelectorBuilder.combine(item1, combination, item2)
FacadeCombine ==
  /\ ops < MaxOps
  /\ \E item1 \in Allocated(heap), item2 \in Allocated(heap), combination \in Tokens :
       InvokeCombine(Fresh(heap), item1, combination, item2, TRUE,
                     Append(heap, NewCssBuilder), Append(log, <<>>), Append(tree, <<>>),
                     Append(made, <<>>))

\* builder.stringify()
Stringify ==
  /\ ops < Budget(heap)
  /\ \E this \in Allocated(heap) :
       /\ heap' = stringifyEffect(heap, this)
       /\ prev' = heap
       /\ last' = [op |-> "stringify", facade |-> FALSE, this |-> this, value |-> <<>>,
                   item1 |-> 0, item2 |-> 0, err |-> NoError, text |-> stringify(heap, this)]
       /\ ops' = ops + 1
       /\ UNCHANGED <<log, tree, made, rt>>

Next ==
  \/ Element \/ Id \/ Class \/ Attr \/ PseudoClass \/ PseudoElement
  \/ FacadeElement \/ FacadeId \/ FacadeClass \/ FacadeAttr
  \/ FacadePseudoClass \/ FacadePseudoElement
  \/ Combine \/ FacadeCombine \/ Stringify

Spec == Init /\ [][Next]_vars

\* The program writes the literal { width: w, height: h }.
MakeLiteral ==
  /\ rt.pc = "start"
  /\ \E w \in (0 - MaxAbs)..MaxAbs, h \in (0 - MaxAbs)..MaxAbs :
       rt' = [rt EXCEPT !.pc = "literal", !.obj = RectLiteral(w, h)]
  /\ UNCHANGED cssVars

\* json = getJSON(obj)
GetJSON ==
  /\ rt.pc = "literal"
  /\ rt' = [rt EXCEPT !.pc = "json", !.json = getJSON(rt.obj)]
  /\ UNCHANGED cssVars

\* rect = fromJSON(Rectangle.prototype, json)
FromJSON ==
  /\ rt.pc = "json"
  /\ rt' = [rt EXCEPT !.pc = "rect", !.rect = fromJSON(rt.json)]
  /\ UNCHANGED cssVars

\* area = rect.getArea()
GetArea ==
  /\ rt.pc = "rect"
  /\ rt' = [rt EXCEPT !.pc = "done", !.area = getArea(rt.rect)]
  /\ UNCHANGED cssVars

NextRect == MakeLiteral \/ GetJSON \/ FromJSON \/ GetArea

SpecRect == Init /\ [][NextRect]_vars

TypeOK == ops \in 0..MaxChain /\ Len(log) = Len(heap)

\* ================================================================== claims
\* Position of a kind in the canonical order element < id < class < attribute
\* < pseudo-class < pseudo-element.
Rank(k) ==
  CASE k = "element" -> 1 [] k = "id" -> 2 [] k = "class" -> 3
    [] k = "attr" -> 4 [] k = "pseudoClass" -> 5 [] k = "pseudoElement" -> 6
Singular == {"element", "id", "pseudoElement"}
KindOfRank(n) == CHOOSE k \in Kinds : Rank(k) = n

\* The text a fragment of kind k and value v is rendered as.
Rendered(k, v) ==
  CASE k = "element" -> v
    [] k = "id" -> <<"#">> \o v
    [] k = "class" -> <<".">> \o v
    [] k = "attr" -> <<"[">> \o v \o <<"]">>
    [] k = "pseudoClass" -> <<":">> \o v
    [] k = "pseudoElement" -> <<":", ":">> \o v

\* The calls of lg are non-decreasing in the canonical order and use each
\* singular kind at most once.
ValidCalls(lg) ==
  /\ \A i, j \in 1..Len(lg) : i < j => Rank(lg[i].kind) <= Rank(lg[j].kind)
  /\ \A i, j \in 1..Len(lg) : (i < j /\ lg[i].kind = lg[j].kind) => lg[i].kind \notin Singular

RECURSIVE OfKind(_, _)
\* The rendered fragments of kind k among the calls of lg, in call order.
OfKind(lg, k) ==
  IF lg = <<>> THEN <<>>
  ELSE (IF Head(lg).kind = k THEN Rendered(k, Head(lg).value) ELSE <<>>) \o OfKind(Tail(lg), k)

RECURSIVE Canonical(_, _)
\* The fragments of the calls of lg, kind after kind from rank n on.
Canonical(lg, n) ==
  IF n > 6 THEN <<>> ELSE OfKind(lg, KindOfRank(n)) \o Canonical(lg, n + 1)

IsFragmentCall(c) == c.op \in Kinds
\* The builder had a property for kind k, that is held a fragment of kind k.
Held(h, i, k) == HasOwnProperty(h[i].selectors, k)

\* C1: a builder made by a facade call and extended by fragment-adding calls
\* that respect the canonical order and use element, id and pseudoElement at
\* most once renders as the concatenation of its fragments in canonical kind
\* order, insertion order within a kind, duplicates kept, no separator.
C1_ValidChainRendering ==
  \A i \in DOMAIN heap :
    (Len(heap[i].complex) = 0 /\ tree[i] = <<>> /\ ValidCalls(log[i]))
      => stringify(heap, i) = Canonical(log[i], 1)

C1_Witness ==
  \E i \in DOMAIN heap :
    /\ tree[i] = <<>> /\ ValidCalls(log[i]) /\ Len(log[i]) = 4
    /\ log[i][1].kind = "id"
    /\ log[i][2].kind = "class" /\ log[i][3].kind = "class"
    /\ log[i][2].value # log[i][3].value
    /\ log[i][4].kind = "pseudoClass"
    /\ stringify(heap, i) = <<"#", "a", ".", "b", ".", "a", ":", "b">>

\* C2: element, id or pseudoElement called on a builder that already holds a
\* fragment of that kind raises the repeat error, not the position error, also
\* when the builder holds fragments of later kinds.
C2_DuplicateRaisesRepeatError ==
  (IsFragmentCall(last) /\ ~last.facade /\ last.op \in Singular
     /\ Held(prev, last.this, last.op))
    => last.err = repeatError

C2_Witness ==
  /\ last.op = "element" /\ ~last.facade
  /\ Held(prev, last.this, "element") /\ Held(prev, last.this, "class")
  /\ last.err = repeatError

\* C3 (as claimed): a fragment-adding call of kind K that is no duplicate of a
\* singular kind raises the position error whenever the builder already holds
\* a fragment of a kind later than K.
C3_EarlierKindAfterLaterRaises ==
  (IsFragmentCall(last) /\ ~last.facade
     /\ ~(last.op \in Singular /\ Held(prev, last.this, last.op))
     /\ \E k \in Kinds : Rank(k) > Rank(last.op) /\ Held(prev, last.this, k))
    => last.err = positionError

\* C4: right after cssSelectorBuilder.combine(A, t, B) the result renders as
\* A's rendering, a space, t, a space, B's rendering.
C4_FacadeCombineRendering ==
  (last.op = "combine" /\ last.facade)
    => stringify(heap, last.this) =
         stringify(heap, last.item1) \o <<" ">> \o last.value \o <<" ">> \o stringify(heap, last.item2)

C4_Witness ==
  /\ last.op = "combine" /\ last.facade
  /\ Len(heap[last.item1].complex) > 0
  /\ Len(heap[last.item2].complex) = 0
  /\ Len(stringify(heap, last.item2)) > 0

RECURSIVE Render(_)
\* In-order rendering of a selector expression: a leaf is its text, an inner
\* node contributes a space, its token and a space between its operands.
Render(t) ==
  IF Len(t) = 1 THEN t[1]
  ELSE Render(t[1]) \o <<" ">> \o t[2] \o <<" ">> \o Render(t[3])

\* C5: a builder that combine made of a selector expression, nested to any
\* depth, renders as the in-order concatenation of the leaves' renderings with
\* ' ' + token + ' ' for every inner node.
C5_NestedCombineRendering ==
  \A i \in DOMAIN heap : tree[i] # <<>> => stringify(heap, i) = Render(tree[i])

\* combine(X, '+', combine(Y, ' ', Z)): three spaces between Y and Z.
C5_Witness ==
  \E i \in DOMAIN heap :
    /\ Len(tree[i]) = 3 /\ tree[i][2] = <<"+">>
    /\ Len(tree[i][1]) = 1
    /\ Len(tree[i][3]) = 3 /\ tree[i][3][2] = <<" ">>
    /\ Len(tree[i][3][1]) = 1 /\ Len(tree[i][3][3]) = 1
    /\ stringify(heap, i) =
         tree[i][1][1] \o <<" ", "+", " ">> \o tree[i][3][1][1] \o <<" ", " ", " ">> \o tree[i][3][3][1]

\* C6 (as claimed): whatever the state of the receiver r, r.combine(A, t, B)
\* renders as A's rendering, a space, t, a space, B's rendering.
C6_CombineIgnoresReceiver ==
  last.op = "combine"
    => stringify(heap, last.this) =
         stringify(prev, last.item1) \o <<" ">> \o last.value \o <<" ">> \o stringify(prev, last.item2)

\* Number of fragments of kind k a builder holds.
FragCount(b, k) ==
  IF ~HasOwnProperty(b.selectors, k) THEN 0
  ELSE IF IsArr(Get(b.selectors, k)) THEN Len(Get(b.selectors, k)[2]) ELSE 1

\* C7: a call, whether it returns or raises, changes no builder but its
\* receiver: every other builder keeps its whole state (which decides the
\* outcome of the calls that follow on it) and its rendering.
C7_BuildersShareNoState ==
  \A j \in DOMAIN prev :
    j # last.this => (heap[j] = prev[j] /\ stringify(heap, j) = stringify(prev, j))

C7_Witness ==
  /\ Len(prev) = 2 /\ last.this = 1 /\ last.err = positionError
  /\ Len(prev[2].selectors) > 0
  /\ heap[1] # prev[1]

\* C8 (I1): every builder holds at most one element, one id and one
\* pseudo-element fragment, also after calls that raised.
C8_SingularAtMostOnce ==
  \A i \in DOMAIN heap : \A k \in Singular : FragCount(heap[i], k) <= 1

C8_Witness ==
  /\ last.op = "id" /\ last.err = repeatError
  /\ FragCount(heap[last.this], "id") = 1
  /\ \E n \in 1..Len(log[last.this]) : log[last.this][n].err = positionError

\* C9 (as claimed): no call made on a combined selector changes its rendering.
C9_CombinedImmutable ==
  (last.op # "none" /\ ~last.facade /\ Len(prev[last.this].complex) > 0)
    => stringify(heap, last.this) = stringify(prev, last.this)

C11_RectangleRoundTrip ==
  /\ rt.pc \in {"rect", "done"}
       => /\ rt.rect.width = Get(rt.obj, widthKey)
          /\ rt.rect.height = Get(rt.obj, heightKey)
  /\ rt.pc = "done" => rt.area = Get(rt.obj, widthKey) * Get(rt.obj, heightKey)

C11_Witness ==
  /\ rt.pc = "done"
  /\ rt.obj = RectLiteral(0 - 12, 7)
  /\ rt.json = <<"{", "\"", "w", "i", "d", "t", "h", "\"", ":", "-", "1", "2", ",",
                 "\"", "h", "e", "i", "g", "h", "t", "\"", ":", "7", "}">>
  /\ rt.rect = Rectangle(0 - 12, 7)
  /\ rt.area = 0 - 84

RECURSIVE Stored(_)
\* The calls of lg that stored their fragment: all but those that raised the
\* repeat error.
Stored(lg) ==
  IF lg = <<>> THEN <<>>
  ELSE (IF Head(lg).err # repeatError THEN <<Head(lg)>> ELSE <<>>) \o Stored(Tail(lg))

RECURSIVE FirstKinds(_, _)
\* The distinct kinds of the calls of lg in order of first occurrence, after seen.
FirstKinds(lg, seen) ==
  IF lg = <<>> THEN <<>>
  ELSE IF Head(lg).kind \in seen THEN FirstKinds(Tail(lg), seen)
  ELSE <<Head(lg).kind>> \o FirstKinds(Tail(lg), seen \cup {Head(lg).kind})

InCanonicalOrder(ks) == \A i, j \in 1..Len(ks) : i < j => Rank(ks[i]) < Rank(ks[j])
Repeatable == Kinds \ Singular
RaisedBefore(lg, n, e) == \E m \in 1..(n - 1) : lg[m].err = e

\* C12: a fragment-adding call that does not raise the repeat error raises the
\* position error exactly when, with its fragment stored, the distinct kinds
\* the builder holds, in order of first insertion, are not in canonical order;
\* a repeatable kind added again right after itself on a builder that raised
\* nothing before does not raise.
C12_PositionErrorIffKindsOutOfOrder ==
  (IsFragmentCall(last) /\ last.err # repeatError)
    => /\ (last.err = positionError)
            <=> ~InCanonicalOrder(FirstKinds(Stored(log[last.this]), {}))
       /\ LET lg == log[last.this]
               n == Len(lg)
           IN (n >= 2 /\ last.op \in Repeatable /\ lg[n - 1].kind = last.op
                 /\ \A m \in 1..(n - 1) : lg[m].err = NoError)
                => last.err = NoError

C12_Witness ==
  /\ IsFragmentCall(last) /\ last.err = positionError /\ last.op = "class"
  /\ Len(log[last.this]) = 3
  /\ log[last.this][2].kind = "class" /\ log[last.this][2].err = positionError
  /\ log[last.this][1].kind = "pseudoClass"

\* C13: once a fragment-adding call on a builder has raised the position
\* error, every later fragment-adding call on that builder raises an error.
C13_NoRecoveryAfterPositionError ==
  \A i \in DOMAIN log : \A n \in 1..Len(log[i]) :
    RaisedBefore(log[i], n, positionError) => log[i][n].err # NoError

C13_Witness ==
  \E i \in DOMAIN log :
    /\ Len(log[i]) = 4
    /\ log[i][2].err = positionError
    /\ log[i][3].err = repeatError
    /\ log[i][4].err = positionError /\ Rank(log[i][4].kind) > Rank(log[i][1].kind)

\* C14 (as claimed): in every reachable state of a builder on which combine
\* was never called, also after caught errors, stringify() lists the stored
\* fragments in canonical kind order, insertion order within a kind.
C14_AlwaysCanonicalRendering ==
  \A i \in DOMAIN heap :
    tree[i] = <<>> => stringify(heap, i) = Canonical(Stored(log[i]), 1)

\* C14 (amended): the same, for the builders on which no call has raised the
\* position error (calls that raised the repeat error included).
C14_CanonicalRenderingUnlessPositionError ==
  \A i \in DOMAIN heap :
    (tree[i] = <<>> /\ ~RaisedBefore(log[i], Len(log[i]) + 1, positionError))
      => stringify(heap, i) = Canonical(Stored(log[i]), 1)

\* class, pseudoElement, pseudoElement again (raises), class: no position
\* error, and the calls are not in canonical order.
C14_Witness ==
  \E i \in DOMAIN heap :
    /\ tree[i] = <<>> /\ Len(log[i]) = 4
    /\ ~RaisedBefore(log[i], 5, positionError)
    /\ log[i][3].err = repeatError
    /\ ~ValidCalls(Stored(log[i]))
    /\ stringify(heap, i) = <<".", "a", ".", "b", ":", ":", "a">>

\* C15: stringify() changes no builder: the heap after it is the heap before
\* it (so every later call ends as it would have without it), and the text it
\* returned is the text a second stringify() returns.
C15_StringifyIsPureRead ==
  last.op = "stringify"
    => (heap = prev /\ last.text = stringify(heap, last.this))

C15_Witness ==
  /\ last.op = "stringify"
  /\ Len(heap[last.this].complex) > 0 /\ Len(heap[last.this].selectors) > 0
  /\ Len(last.text) > 0 /\ last.text = stringify(heap, last.this)

\* C16: a call that raises the repeat error leaves the builder, and every
\* other, as it was: same state, so same rendering and same outcome of the
\* calls that follow.
C16_RepeatErrorChangesNothing ==
  (IsFragmentCall(last) /\ last.err = repeatError)
    => (heap = prev /\ stringify(heap, last.this) = stringify(prev, last.this))

C16_Witness ==
  /\ IsFragmentCall(last) /\ last.err = repeatError /\ last.op = "element"
  /\ Get(heap[last.this].selectors, "element") # JsStr(last.value)
  /\ Len(heap[last.this].selectors) > 1
====
